---- MODULE Spec2Model ----
(***************************************************************************)
(* LexlyAI frontend: the top-level coordinator (App), the three views      *)
(* (DocumentUpload, DocumentAnalysis, ChatInterface) and the API client    *)
(* (ApiService), as one state machine.                                     *)
(*                                                                         *)
(* One action is one React event handler or one continuation of an async   *)
(* handler after its await, followed by the re-render it causes: mounting  *)
(* and unmounting of the views and the useEffect hooks that the state      *)
(* change triggers.  A request in flight carries the values its handler's  *)
(* closure captured when it was issued.  React ignores a setState of an    *)
(* unmounted instance, while a callback prop that is a setter of App       *)
(* (onSessionUpdate, onSessionLoad) still acts: a chat request carries a   *)
(* flag `live` that is TRUE while the ChatInterface instance that issued   *)
(* it is mounted, and the requests of DocumentUpload and DocumentAnalysis, *)
(* whose answers only reach setters of the view itself, leave the model    *)
(* when their view unmounts.                                               *)
(*                                                                         *)
(* Texts are sequences of characters.  ChatMessage.timestamp is only       *)
(* displayed and is left out.                                              *)
(***************************************************************************)
EXTENDS Integers, Sequences, FiniteSets, Bags, TLC

\* ------------------------------------------------------------------ bounds
MaxInFlight == 2
MaxHistory == 3
MaxCalls == 2

\* ------------------------------------------------------- JavaScript values
Null == "null"
Undefined == "undefined"
NoSession == [null |-> TRUE]
NoClause == "false"

\* JavaScript truthiness of a string-or-null value (if (!x), x || y, x && y)
Truthy(x) == x \notin {"", Null, Undefined}

\* a || b
OrElse(a, b) == IF Truthy(a) THEN a ELSE b

\* ------------------------------------------------------ backend's answers
\* the session id POST /upload creates
SessionIds == {"s2"}
ClauseIds == {"c1", "c2"}
Space == " "
Texts == {<<Space, "h">>}
Replies == {<<"o">>}
\* HTTP outcomes of a request: 200 or an error status
FailStatuses == {404, 500}
Statuses == {200} \cup FailStatuses
\* the outcomes of POST /upload and GET /sessions/{id}, whose handlers treat
\* every failure alike
PlainStatuses == {200, 500}

\* analysis.clauses (their ids) and analysis.document_name
ClausesOf(a) == IF a = "a1" THEN {"c1", "c2"} ELSE IF a = "a2" THEN {"c1"} ELSE {}

DocumentNameOf(a) == IF a = "a1" THEN "d1" ELSE "d2"

\* the analysis the backend stores for a session, immutable once produced
AnalysisOf(sessionId) == IF sessionId = "s2" THEN "a2" ELSE "a1"

\* the session ids GET /sessions lists
ListedIds == {"s1"}

UserMsg(t) == [role |-> "user", content |-> t]

AssistantMsg(t) == [role |-> "assistant", content |-> t]

\* conversation histories GET /sessions/{id} answers with (a session just
\* uploaded has the empty one)
StoredHistories == {<<UserMsg(<<"h">>), AssistantMsg(<<"o">>)>>}

\* ------------------------------------------------------------------ state
VARIABLES
    currentTab, sessionData, loading, error, success, documentAnalysis,
    upload, analysisView, chat,
    uploadReqs, listReqs, loadReqs, explainReqs, summaryReqs, chatReqs,
    apiCalls

appVars == <<currentTab, sessionData, loading, error, success, documentAnalysis>>

viewVars == <<upload, analysisView, chat>>

netVars == <<uploadReqs, listReqs, loadReqs, explainReqs, summaryReqs, chatReqs>>

vars == <<appVars, viewVars, netVars, apiCalls>>

\* String.prototype.trim on a sequence of characters
RECURSIVE TrimLeft(_)
TrimLeft(t) == IF t # <<>> /\ Head(t) = Space THEN TrimLeft(Tail(t)) ELSE t

RECURSIVE TrimRight(_)
TrimRight(t) ==
    IF t # <<>> /\ t[Len(t)] = Space THEN TrimRight(SubSeq(t, 1, Len(t) - 1)) ELSE t

Trim(t) == TrimRight(TrimLeft(t))

\* error.message of an axios failure
AxiosMessage(status) ==
    IF status = 404 THEN "Request failed with status code 404"
    ELSE "Request failed with status code 500"

\* ------------------------------------------------------------- API client
\* What a call of an ApiService method does before any answer: it throws
\* locally, or it issues one HTTP request.
LocalError(m) == [kind |-> "error", message |-> m]

HttpRequest(m, path, sid) == [kind |-> "http", method |-> m, path |-> path, sid |-> sid]

explainClause(sessionId) == HttpRequest("POST", "/explain", sessionId)

summarizeDocument(sessionId) ==
    IF ~Truthy(sessionId) THEN LocalError("Session ID is required")
    ELSE HttpRequest("POST", "/summarize", sessionId)

chatWithDocument(sessionId) ==
    IF ~Truthy(sessionId) THEN LocalError("Session ID is required for chat")
    ELSE HttpRequest("POST", "/chat", sessionId)

getSession(sessionId) == HttpRequest("GET", "/sessions", sessionId)

deleteSession(sessionId) ==
    IF ~Truthy(sessionId) THEN LocalError("Session ID is required")
    ELSE HttpRequest("DELETE", "/sessions", sessionId)

\* the error chatWithDocument rejects with when the request fails
ChatNotFound == "Chat session not found. Please reload the page."

\* the axios error rethrown as it is
chatWithDocumentErrorRaw(status) == AxiosMessage(status)

chatWithDocumentError(status) ==
    IF status = 404 THEN ChatNotFound ELSE AxiosMessage(status)

\* the stored conversation left out of the loaded session
getSessionResultNoHistory(sessionId, payloadId, analysis, history) ==
    [sessionId |-> OrElse(payloadId, sessionId),
     documentName |-> DocumentNameOf(analysis),
     analysis |-> analysis,
     conversationHistory |-> <<>>]

\* the SessionData getSession builds from the payload
getSessionResult(sessionId, payloadId, analysis, history) ==
    [sessionId |-> OrElse(payloadId, sessionId),
     documentName |-> DocumentNameOf(analysis),
     analysis |-> analysis,
     conversationHistory |-> history]

\* ----------------------------------------------------------- view states
UploadUnmounted == [mounted |-> FALSE, sessions |-> {}]

UploadInitial == [mounted |-> TRUE, sessions |-> {}]

\* the empty Record<string, ClauseExplanation>
NoExplanations == [c \in {} |-> Null]

AnalysisUnmounted ==
    [mounted |-> FALSE, expandedClause |-> NoClause,
     clauseExplanations |-> NoExplanations, loadingExplanations |-> {},
     documentSummary |-> Null, loadingSummary |-> FALSE, error |-> Null]

\* useEffect(..., [sessionData]) of DocumentAnalysis
AnalysisEffect(v, sd) ==
    IF ~Truthy(sd.sessionId)
    THEN [v EXCEPT !.error = "Invalid session: No session ID available"]
    ELSE [v EXCEPT !.error = Null]

AnalysisInitial == [AnalysisUnmounted EXCEPT !.mounted = TRUE]

ChatUnmounted ==
    [mounted |-> FALSE, message |-> <<>>, messages |-> <<>>,
     loading |-> FALSE, error |-> Null]

ChatInitial(sd) ==
    [mounted |-> TRUE, message |-> <<>>, messages |-> sd.conversationHistory,
     loading |-> FALSE, error |-> Null]

SessionIdMissing == "Session ID is not available. Please reload the page."

\* useEffect(..., [sessionData]) of ChatInterface
ChatEffect(c, sd) ==
    IF ~Truthy(sd.sessionId)
    THEN [c EXCEPT !.error = SessionIdMissing]
    ELSE [c EXCEPT !.messages = sd.conversationHistory, !.error = Null]

\* --------------------------------------------------------- App's render
UploadShown(tab) == tab = 0

AnalysisShown(tab, da, sd) == tab = 1 /\ Truthy(da) /\ sd # NoSession

ChatShown(tab, da, sd) == tab = 2 /\ Truthy(da) /\ sd # NoSession

\* a chat request whose ChatInterface instance is gone
Orphan(r) == [r EXCEPT !.live = FALSE]

Orphaned(B) == BagOfAll(Orphan, B)

InFlight ==
    BagCardinality(uploadReqs) + BagCardinality(loadReqs)
    + BagCardinality(explainReqs) + BagCardinality(summaryReqs)
    + BagCardinality(chatReqs)

CanIssue == InFlight < MaxInFlight

(***************************************************************************)
(* The re-render after a handler ran.  u, v, c are the view states and     *)
(* er, sr, cr the requests of the views as the handler left them;          *)
(* sessionSet tells whether the handler called setSessionData.  The primed *)
(* App variables are set by the handler.                                   *)
(***************************************************************************)
Render(u, v, c, er, sr, cr, sessionSet) ==
    LET upNow == UploadShown(currentTab')
        anNow == AnalysisShown(currentTab', documentAnalysis', sessionData')
        chNow == ChatShown(currentTab', documentAnalysis', sessionData')
    IN  /\ upload' = IF ~upNow THEN UploadUnmounted
                     ELSE IF ~u.mounted THEN UploadInitial ELSE u
        \* loadSessions() runs once on mount; an answer to an unmounted
        \* DocumentUpload only calls setSessions and is dropped here
        /\ listReqs' = IF ~upNow THEN 0
                       ELSE IF ~u.mounted THEN 1 ELSE listReqs
        /\ analysisView' =
              IF ~anNow THEN AnalysisUnmounted
              ELSE IF ~v.mounted THEN AnalysisEffect(AnalysisInitial, sessionData')
              ELSE IF sessionSet THEN AnalysisEffect(v, sessionData')
              ELSE v
        \* an answer to an unmounted DocumentAnalysis only calls its setters
        \* and is dropped here as well
        /\ explainReqs' = IF v.mounted /\ ~anNow THEN EmptyBag ELSE er
        /\ summaryReqs' = IF v.mounted /\ ~anNow THEN EmptyBag ELSE sr
        /\ chat' =
              IF ~chNow THEN ChatUnmounted
              ELSE IF ~c.mounted THEN ChatEffect(ChatInitial(sessionData'), sessionData')
              ELSE IF sessionSet THEN ChatEffect(c, sessionData')
              ELSE c
        /\ chatReqs' = IF c.mounted /\ ~chNow THEN Orphaned(cr) ELSE cr

\* a handler that leaves the views and their requests as they are
RenderSame(sessionSet) ==
    Render(upload, analysisView, chat, explainReqs, summaryReqs, chatReqs, sessionSet)

Init ==
    /\ currentTab = 0
    /\ sessionData = NoSession
    /\ loading = FALSE
    /\ error = Null
    /\ success = Null
    /\ documentAnalysis = Null
    /\ upload = UploadInitial
    /\ analysisView = AnalysisUnmounted
    /\ chat = ChatUnmounted
    /\ uploadReqs = EmptyBag
    /\ listReqs = 1
    /\ loadReqs = EmptyBag
    /\ explainReqs = EmptyBag
    /\ summaryReqs = EmptyBag
    /\ chatReqs = EmptyBag
    /\ apiCalls = <<>>

\* ------------------------------------------------------------------- App
\* handleTabChange, from the nav buttons (Analysis and AI Assistant are
\* disabled while documentAnalysis is falsy)
handleTabChange(tabIdx) ==
    /\ UNCHANGED apiCalls
    /\ tabIdx \in {1, 2} => Truthy(documentAnalysis)
    /\ currentTab' = tabIdx
    /\ UNCHANGED <<sessionData, loading, error, success, documentAnalysis>>
    /\ UNCHANGED <<uploadReqs, loadReqs>>
    /\ RenderSame(FALSE)

\* onDrop -> handleDocumentUpload up to its await; the request carries the
\* sessionData and documentAnalysis of the render the handler belongs to
handleDocumentUpload ==
    /\ UNCHANGED apiCalls
    /\ upload.mounted
    /\ ~loading
    /\ CanIssue
    /\ loading' = TRUE
    /\ error' = Null
    /\ uploadReqs' = uploadReqs (+) SetToBag({[sessionData |-> sessionData,
                                                documentAnalysis |-> documentAnalysis]})
    /\ UNCHANGED <<currentTab, sessionData, success, documentAnalysis, loadReqs>>
    /\ RenderSame(FALSE)

MissingSessionId == "Invalid response: missing session ID"

\* the catch block of handleDocumentUpload
UploadCatch(message) ==
    /\ error' = OrElse(message, "Failed to upload document")
    /\ sessionData' = NoSession
    /\ documentAnalysis' = Null
    /\ UNCHANGED <<currentTab, success>>

\* handleDocumentUpload after its await: status is the HTTP outcome, and
\* for a 200 the response carries session_id, document_name and analysis
UploadDone(req, status, session_id, document_name, analysis) ==
    /\ UNCHANGED apiCalls
    /\ BagIn(req, uploadReqs)
    /\ uploadReqs' = uploadReqs (-) SetToBag({req})
    /\ IF status # 200 THEN UploadCatch(AxiosMessage(status))
       ELSE IF Truthy(session_id)
       THEN /\ sessionData' = [sessionId |-> session_id,
                               documentName |-> document_name,
                               analysis |-> analysis,
                               conversationHistory |-> <<>>]
            /\ documentAnalysis' = analysis
            /\ success' = "Document uploaded and processed successfully!"
            /\ currentTab' = 1
            /\ UNCHANGED error
       ELSE UploadCatch(MissingSessionId)
    /\ loading' = FALSE
    /\ UNCHANGED loadReqs
    /\ RenderSame(TRUE)

UploadResponse ==
    \E req \in BagToSet(uploadReqs), status \in PlainStatuses,
       session_id \in SessionIds \cup {"", Undefined} :
        UploadDone(req, status, session_id, DocumentNameOf(AnalysisOf(session_id)),
                   AnalysisOf(session_id))

\* handleSessionLoad
handleSessionLoad(session) ==
    /\ sessionData' = session
    /\ documentAnalysis' = session.analysis
    /\ currentTab' = 1
    /\ UNCHANGED <<loading, error, success>>

\* -------------------------------------------------------- DocumentUpload
\* loadSessions after its await
ListResponse ==
    /\ UNCHANGED apiCalls
    /\ listReqs > 0
    /\ \E ok \in BOOLEAN :
          upload' = IF ok THEN [upload EXCEPT !.sessions = ListedIds] ELSE upload
    /\ listReqs' = listReqs - 1
    /\ UNCHANGED <<appVars, analysisView, chat>>
    /\ UNCHANGED <<uploadReqs, loadReqs, explainReqs, summaryReqs, chatReqs>>

\* the View button: loadSession up to its await
loadSession(sessionId) ==
    /\ UNCHANGED apiCalls
    /\ upload.mounted
    /\ sessionId \in upload.sessions
    /\ CanIssue
    /\ getSession(sessionId).kind = "http"
    /\ loadReqs' = loadReqs (+) SetToBag({sessionId})
    /\ UNCHANGED <<appVars, viewVars>>
    /\ UNCHANGED <<uploadReqs, listReqs, explainReqs, summaryReqs, chatReqs>>

\* loadSession after its await; onSessionLoad is App's handleSessionLoad
LoadDone(sessionId, status, payloadId, analysis, history) ==
    /\ UNCHANGED apiCalls
    /\ BagIn(sessionId, loadReqs)
    /\ loadReqs' = loadReqs (-) SetToBag({sessionId})
    /\ UNCHANGED uploadReqs
    /\ IF status = 200
       THEN /\ handleSessionLoad(getSessionResult(sessionId, payloadId, analysis, history))
            /\ RenderSame(TRUE)
       ELSE /\ UNCHANGED <<appVars, viewVars>>
            /\ UNCHANGED <<listReqs, explainReqs, summaryReqs, chatReqs>>

LoadResponse ==
    \E sessionId \in ListedIds, status \in PlainStatuses, history \in StoredHistories :
        \E payloadId \in {sessionId, Undefined} :
            LoadDone(sessionId, status, payloadId, AnalysisOf(sessionId), history)

\* ----------------------------------------------------------- ChatInterface
\* setMessage: onChange of the composer (disabled while loading), or a
\* suggested question (shown while the history is empty)
setMessage(text) ==
    /\ UNCHANGED apiCalls
    /\ chat.mounted
    /\ ~chat.loading \/ chat.messages = <<>>
    /\ chat' = [chat EXCEPT !.message = text]
    /\ UNCHANGED <<appVars, upload, analysisView, netVars>>

\* const newMessages = [...(messages || []), userMessage]
NewMessages(messages, userMessage) == Append(messages, userMessage)

\* the reply appended to the history as it was before the send
UpdatedMessagesFromSnapshot(newMessages, assistantMessage) ==
    Append(SubSeq(newMessages, 1, Len(newMessages) - 1), assistantMessage)

\* const updatedMessages = [...(newMessages || []), assistantMessage]
UpdatedMessages(newMessages, assistantMessage) == Append(newMessages, assistantMessage)

\* the optimistic message kept after a failure
RolledBackKept(messages, newMessages) == newMessages

\* the catch block's setMessages(messages)
RolledBack(messages, newMessages) == messages

\* the catch block's setError(err.message || "Failed to send message")
SendError(message) == OrElse(message, "Failed to send message")

\* handleSendMessage up to its await (Send button or Enter; the button is
\* disabled on the handler's own first guard)
handleSendMessage ==
    /\ UNCHANGED apiCalls
    /\ chat.mounted
    /\ ~(Trim(chat.message) = <<>> \/ chat.loading)
    /\ UNCHANGED <<appVars, upload, analysisView>>
    /\ UNCHANGED <<uploadReqs, listReqs, loadReqs, explainReqs, summaryReqs>>
    /\ IF ~Truthy(sessionData.sessionId)
       THEN /\ chat' = [chat EXCEPT !.error = SessionIdMissing]
            /\ UNCHANGED chatReqs
       ELSE LET userMessage == UserMsg(Trim(chat.message))
                newMessages == NewMessages(chat.messages, userMessage)
                call == chatWithDocument(sessionData.sessionId)
                sent == [chat EXCEPT !.messages = newMessages, !.message = <<>>,
                                     !.loading = TRUE, !.error = Null]
            IN  IF call.kind = "http"
                THEN /\ CanIssue
                     /\ Len(chat.messages) < MaxHistory
                     /\ chat' = sent
                     /\ chatReqs' = chatReqs (+) SetToBag({[sessionData |-> sessionData,
                                        messages |-> chat.messages,
                                        userMessage |-> userMessage,
                                        live |-> TRUE]})
                ELSE /\ chat' = [sent EXCEPT !.error = SendError(call.message),
                                             !.messages = RolledBack(chat.messages, newMessages),
                                             !.loading = FALSE]
                     /\ UNCHANGED chatReqs

\* handleSendMessage after its await; onSessionUpdate is App's setSessionData
ChatDone(req, status, reply) ==
    /\ UNCHANGED apiCalls
    /\ BagIn(req, chatReqs)
    /\ UNCHANGED <<uploadReqs, loadReqs>>
    /\ LET newMessages == NewMessages(req.messages, req.userMessage)
           rest == chatReqs (-) SetToBag({req})
       IN  IF status = 200
           THEN LET updatedMessages == UpdatedMessages(newMessages, AssistantMsg(reply))
                    c == IF req.live
                         THEN [chat EXCEPT !.messages = updatedMessages, !.loading = FALSE]
                         ELSE chat
                IN  /\ sessionData' = [req.sessionData EXCEPT
                                          !.conversationHistory = updatedMessages]
                    /\ UNCHANGED <<currentTab, loading, error, success, documentAnalysis>>
                    /\ Render(upload, analysisView, c, explainReqs, summaryReqs, rest, TRUE)
           ELSE /\ chat' = IF req.live
                           THEN [chat EXCEPT
                                   !.error = SendError(chatWithDocumentError(status)),
                                   !.messages = RolledBack(req.messages, newMessages),
                                   !.loading = FALSE]
                           ELSE chat
                /\ chatReqs' = rest
                /\ UNCHANGED <<appVars, upload, analysisView>>
                /\ UNCHANGED <<listReqs, explainReqs, summaryReqs>>

ChatResponse ==
    \E req \in BagToSet(chatReqs), status \in Statuses, reply \in Replies :
        ChatDone(req, status, reply)

\* clearConversation (the Clear button is disabled while loading)
clearConversation ==
    /\ UNCHANGED apiCalls
    /\ chat.mounted
    /\ ~chat.loading
    /\ chat' = [chat EXCEPT !.messages = <<>>, !.error = Null]
    /\ UNCHANGED <<appVars, upload, analysisView, netVars>>

\* -------------------------------------------------------- DocumentAnalysis
\* the ClauseExplanation the backend gives for a clause of a session
Explanation(sessionId, clauseId) == [clause_id |-> clauseId, sessionId |-> sessionId]

\* { ...prev, [clauseId]: explanation }
WithExplanation(prev, clauseId, explanation) ==
    [k \in DOMAIN prev \cup {clauseId} |-> IF k = clauseId THEN explanation ELSE prev[k]]

\* the condition under which handleClauseExpand fetches
ShouldFetch(v, clauseId) ==
    clauseId \notin DOMAIN v.clauseExplanations /\ v.expandedClause # clauseId

\* handleClauseExpand up to its await (or to its end when nothing is fetched)
handleClauseExpand(clauseId) ==
    /\ UNCHANGED apiCalls
    /\ analysisView.mounted
    /\ clauseId \in ClausesOf(documentAnalysis)
    /\ UNCHANGED <<appVars, upload, chat>>
    /\ UNCHANGED <<uploadReqs, listReqs, loadReqs, summaryReqs, chatReqs>>
    /\ LET toggled == [analysisView EXCEPT !.expandedClause =
                          IF analysisView.expandedClause = clauseId
                          THEN NoClause ELSE clauseId]
       IN  IF ShouldFetch(analysisView, clauseId)
           THEN /\ CanIssue
                /\ explainClause(sessionData.sessionId).kind = "http"
                /\ analysisView' = [toggled EXCEPT !.loadingExplanations = @ \cup {clauseId}]
                /\ explainReqs' = explainReqs (+) SetToBag({[sessionId |-> sessionData.sessionId,
                                      clauseId |-> clauseId]})
           ELSE /\ analysisView' = toggled
                /\ UNCHANGED explainReqs

\* handleClauseExpand after its await
ExplainDone(req, ok) ==
    /\ UNCHANGED apiCalls
    /\ BagIn(req, explainReqs)
    /\ explainReqs' = explainReqs (-) SetToBag({req})
    /\ analysisView' =
          [analysisView EXCEPT
                  !.clauseExplanations =
                      IF ok THEN WithExplanation(@, req.clauseId,
                                                 Explanation(req.sessionId, req.clauseId))
                      ELSE @,
                  !.loadingExplanations = @ \ {req.clauseId}]
    /\ UNCHANGED <<appVars, upload, chat>>
    /\ UNCHANGED <<uploadReqs, listReqs, loadReqs, summaryReqs, chatReqs>>

ExplainResponse ==
    \E req \in BagToSet(explainReqs), ok \in BOOLEAN : ExplainDone(req, ok)

SummaryOf(sessionId) == IF sessionId = "s1" THEN "summary of s1" ELSE "summary of s2"

SummaryFailed == "Failed to generate summary. Please try again."

\* handleGenerateSummary up to its await (the button is disabled while
\* loadingSummary)
handleGenerateSummary ==
    /\ UNCHANGED apiCalls
    /\ analysisView.mounted
    /\ ~analysisView.loadingSummary
    /\ UNCHANGED <<appVars, upload, chat>>
    /\ UNCHANGED <<uploadReqs, listReqs, loadReqs, explainReqs, chatReqs>>
    /\ IF ~Truthy(sessionData.sessionId)
       THEN /\ UNCHANGED <<analysisView, summaryReqs>>
       ELSE IF summarizeDocument(sessionData.sessionId).kind = "http"
       THEN /\ CanIssue
            /\ analysisView' = [analysisView EXCEPT !.loadingSummary = TRUE]
            /\ summaryReqs' = summaryReqs (+) SetToBag({[sessionId |-> sessionData.sessionId]})
       ELSE /\ analysisView' = [analysisView EXCEPT !.documentSummary = SummaryFailed]
            /\ UNCHANGED summaryReqs

\* handleGenerateSummary after its await
SummaryDone(req, ok) ==
    /\ UNCHANGED apiCalls
    /\ BagIn(req, summaryReqs)
    /\ summaryReqs' = summaryReqs (-) SetToBag({req})
    /\ analysisView' =
          [analysisView EXCEPT
                  !.documentSummary = IF ok THEN SummaryOf(req.sessionId) ELSE SummaryFailed,
                  !.loadingSummary = FALSE]
    /\ UNCHANGED <<appVars, upload, chat>>
    /\ UNCHANGED <<uploadReqs, listReqs, loadReqs, explainReqs, chatReqs>>

SummaryResponse ==
    \E req \in BagToSet(summaryReqs), ok \in BOOLEAN : SummaryDone(req, ok)

Next ==
    \/ \E t \in 0..2 : handleTabChange(t)
    \/ handleDocumentUpload
    \/ UploadResponse
    \/ ListResponse
    \/ \E s \in ListedIds : loadSession(s)
    \/ LoadResponse
    \/ \E text \in Texts : setMessage(text)
    \/ handleSendMessage
    \/ ChatResponse
    \/ clearConversation
    \/ \E c \in ClauseIds : handleClauseExpand(c)
    \/ ExplainResponse
    \/ handleGenerateSummary
    \/ SummaryResponse

Spec == Init /\ [][Next]_vars

\* --------------------------------------------- the API client on its own
\* the session-scoped methods of ApiService
SessionScoped ==
    {"explainClause", "summarizeDocument", "chatWithDocument", "getSession",
     "deleteSession"}

\* what a call of a session-scoped method does before any answer
Dispatch(method, sessionId) ==
    IF method = "explainClause" THEN explainClause(sessionId)
    ELSE IF method = "summarizeDocument" THEN summarizeDocument(sessionId)
    ELSE IF method = "chatWithDocument" THEN chatWithDocument(sessionId)
    ELSE IF method = "getSession" THEN getSession(sessionId)
    ELSE deleteSession(sessionId)

\* a caller calls a method of ApiService with a session identifier of its
\* choice; apiCalls records what the call did
ApiCall(method, sessionId) ==
    /\ Len(apiCalls) < MaxCalls
    /\ apiCalls' = Append(apiCalls, [method |-> method, sessionId |-> sessionId,
                                     did |-> Dispatch(method, sessionId)])
    /\ UNCHANGED <<appVars, viewVars, netVars>>

ApiNext == \E method \in SessionScoped, sessionId \in {"", "s1"} : ApiCall(method, sessionId)

ApiSpec == Init /\ [][ApiNext]_vars

\* ===================================================================
\* Properties
\* ===================================================================
\* the answers POST /upload can give with status 200 and no session id
NoSessionIdAnswers == {"", Undefined}

\* the number of explanation requests in flight for a clause
ExplainCount(B, clauseId) ==
    BagCardinality([r \in {q \in BagToSet(B) : q.clauseId = clauseId} |-> B[r]])

\* C1: an upload answered with status 200 and no session_id ends with the
\* error "Invalid response: missing session ID" shown and with sessionData
\* and documentAnalysis as they were when the upload started.
C1_InvalidUploadKeepsSession ==
    [][\A req \in BagToSet(uploadReqs), session_id \in NoSessionIdAnswers :
          UploadDone(req, 200, session_id, DocumentNameOf(AnalysisOf(session_id)),
                     AnalysisOf(session_id))
          => /\ error' = "Invalid response: missing session ID"
             /\ sessionData' = req.sessionData
             /\ documentAnalysis' = req.documentAnalysis]_vars

\* C2: every call of a session-scoped method of ApiService (explainClause,
\* summarizeDocument, chatWithDocument, getSession, deleteSession) with an
\* empty session identifier fails with a local validation error and issues
\* no HTTP request.
C2_EmptySessionIdFailsLocally ==
    \A i \in 1..Len(apiCalls) :
        apiCalls[i].sessionId = ""
        => /\ apiCalls[i].did.kind = "error"
           /\ apiCalls[i].did.kind # "http"

\* C3: when a chat send that started from a history of N messages is
\* answered with success, the session's conversationHistory, and the
\* history of the chat view when one is mounted, are the N messages
\* followed by the user's message and then the assistant's reply.
C3_ReplyExtendsHistoryByTwo ==
    [][\A req \in BagToSet(chatReqs), reply \in Replies :
          ChatDone(req, 200, reply)
          => LET N == Len(req.messages)
                 h == sessionData'.conversationHistory
             IN  /\ Len(h) = N + 2
                 /\ SubSeq(h, 1, N) = req.messages
                 /\ h[N + 1] = [role |-> "user", content |-> req.userMessage.content]
                 /\ h[N + 2] = [role |-> "assistant", content |-> reply]
                 /\ chat'.mounted => chat'.messages = h]_vars

\* a send from a history of two messages was answered: view and session
\* hold the four messages
C3_Witness ==
    /\ chat.mounted
    /\ ~chat.loading
    /\ Len(chat.messages) = 4
    /\ sessionData.conversationHistory = chat.messages

\* C4: when a chat send fails, the session is not updated, and the view
\* that sent it shows exactly its pre-send history, an error, and no
\* loading flag.
C4_FailedSendRollsBack ==
    [][\A req \in BagToSet(chatReqs), status \in FailStatuses, reply \in Replies :
          ChatDone(req, status, reply)
          => /\ sessionData' = sessionData
             /\ req.live => /\ chat'.messages = req.messages
                            /\ chat'.error \notin {Null, ""}
                            /\ ~chat'.loading]_vars

\* a send from a non-empty history failed and the view is back on it
C4_Witness ==
    /\ chat.mounted
    /\ ~chat.loading
    /\ chat.error \in {"Chat session not found. Please reload the page.",
                       "Request failed with status code 500"}
    /\ Len(chat.messages) = 2
    /\ chat.message = <<>>

\* C5: once the explanation of a clause has been requested in the mounted
\* analysis view (it is cached or its request is in flight), no step
\* issues a further request for that clause.
C5_OneExplanationRequestPerClause ==
    [][\A c \in ClauseIds :
          (c \in DOMAIN analysisView.clauseExplanations \/ ExplainCount(explainReqs, c) > 0)
          => ExplainCount(explainReqs', c) <= ExplainCount(explainReqs, c)]_vars

\* C6: at most one explanation request is in flight for any clause id.
C6_OneFetchInFlightPerClause ==
    \A c \in ClauseIds : ExplainCount(explainReqs, c) <= 1

\* C7: at most one upload, one chat send and one summary generation is in
\* flight at any time.
C7_OneRequestPerOperation ==
    /\ BagCardinality(uploadReqs) <= 1
    /\ BagCardinality(chatReqs) <= 1
    /\ BagCardinality(summaryReqs) <= 1

\* C8: after a failed network call the session object is what it was
\* before: a failed upload leaves sessionData as it was when the upload
\* started, and handling a failed session load, chat send, clause
\* explanation or summary does not change it.
C8_FailureKeepsSession ==
    [][/\ \A req \in BagToSet(uploadReqs) :
             UploadDone(req, 500, Undefined, DocumentNameOf(AnalysisOf(Undefined)),
                        AnalysisOf(Undefined))
             => sessionData' = req.sessionData
       /\ (\/ \E sessionId \in ListedIds, history \in StoredHistories :
                 LoadDone(sessionId, 500, Undefined, AnalysisOf(sessionId), history)
           \/ \E req \in BagToSet(chatReqs), status \in FailStatuses, reply \in Replies :
                 ChatDone(req, status, reply)
           \/ \E req \in BagToSet(explainReqs) : ExplainDone(req, FALSE)
           \/ \E req \in BagToSet(summaryReqs) : SummaryDone(req, FALSE))
          => sessionData' = sessionData]_vars

\* C9: the reply to a chat request whose ChatInterface was unmounted in the
\* meantime is discarded: it does not change sessionData.
C9_OrphanReplyDiscarded ==
    [][\A req \in BagToSet(chatReqs), reply \in Replies :
          (ChatDone(req, 200, reply) /\ ~req.live) => sessionData' = sessionData]_vars

\* C10: when the chat endpoint answers 404 the view that sent the message
\* shows exactly "Chat session not found. Please reload the page.", which
\* no other failure status produces, and its history gets no assistant
\* message: it is the history the send started from.
C10_NotFoundMessage ==
    [][\A req \in BagToSet(chatReqs), status \in FailStatuses, reply \in Replies :
          (ChatDone(req, status, reply) /\ req.live)
          => /\ (chat'.error = "Chat session not found. Please reload the page.")
                   <=> (status = 404)
             /\ chat'.messages = req.messages
             /\ \A i \in 1..Len(chat'.messages) :
                   i > Len(req.messages) => chat'.messages[i].role # "assistant"]_vars

\* the 404 message is on display in the chat view
C10_Witness ==
    /\ chat.mounted
    /\ chat.error = "Chat session not found. Please reload the page."
    /\ ~chat.loading

\* C11: a successful upload and a successful session load each leave the
\* coordinator with the Analysis tab current and the analysis view mounted,
\* holding the session id, document name and analysis of the response; the
\* conversation history is empty after an upload and the loaded one after
\* a session load.
C11_SuccessLoadsSession ==
    [][/\ \A req \in BagToSet(uploadReqs), session_id \in SessionIds :
             UploadDone(req, 200, session_id, DocumentNameOf(AnalysisOf(session_id)),
                        AnalysisOf(session_id))
             => /\ currentTab' = 1
                /\ analysisView'.mounted
                /\ documentAnalysis' = AnalysisOf(session_id)
                /\ sessionData' = [sessionId |-> session_id,
                                   documentName |-> DocumentNameOf(AnalysisOf(session_id)),
                                   analysis |-> AnalysisOf(session_id),
                                   conversationHistory |-> <<>>]
       /\ \A sessionId \in ListedIds, history \in StoredHistories :
             \A payloadId \in {sessionId, Undefined} :
                LoadDone(sessionId, 200, payloadId, AnalysisOf(sessionId), history)
                => /\ currentTab' = 1
                   /\ analysisView'.mounted
                   /\ documentAnalysis' = AnalysisOf(sessionId)
                   /\ sessionData' = [sessionId |-> sessionId,
                                      documentName |-> DocumentNameOf(AnalysisOf(sessionId)),
                                      analysis |-> AnalysisOf(sessionId),
                                      conversationHistory |-> history]]_vars

\* the listed session s1 was loaded: its analysis is on display and its
\* stored conversation is in the session
C11_Witness ==
    /\ currentTab = 1
    /\ analysisView.mounted
    /\ sessionData # NoSession
    /\ sessionData.sessionId = "s1"
    /\ sessionData.conversationHistory \in StoredHistories
    /\ documentAnalysis = "a1"
    /\ loadReqs = EmptyBag


\* C12: every Clear step empties the chat view's history and clears its
\* error, issues no network request, and happens only while no send is in
\* flight.
C12_ClearIsLocalAndIdle ==
    [][clearConversation
       => /\ chat'.messages = <<>>
          /\ chat'.error = Null
          /\ UNCHANGED netVars
          /\ chatReqs = EmptyBag]_vars

\* C13: every failed explanation fetch leaves its clause out of the pending
\* set and without a cached explanation and sets no error, and expanding a
\* collapsed clause that has no cached explanation issues one more
\* explanation request for it.
C13_FailedFetchCanBeRetried ==
    [][/\ \A req \in BagToSet(explainReqs) :
             ExplainDone(req, FALSE)
             => /\ req.clauseId \notin analysisView'.loadingExplanations
                /\ req.clauseId \notin DOMAIN analysisView'.clauseExplanations
                /\ analysisView'.error = analysisView.error
                /\ error' = error
       /\ \A clauseId \in ClauseIds :
             /\ handleClauseExpand(clauseId)
             /\ analysisView.expandedClause # clauseId
             /\ clauseId \notin DOMAIN analysisView.clauseExplanations
             => ExplainCount(explainReqs', clauseId)
                    = ExplainCount(explainReqs, clauseId) + 1]_vars

\* C14: while the analysis view is mounted, the explanation it displays for
\* the expanded clause and the document summary it displays were fetched for
\* the session id the coordinator currently holds.
C14_CacheBelongsToSession ==
    analysisView.mounted
    => /\ \A clauseId \in ClausesOf(documentAnalysis) \cap DOMAIN analysisView.clauseExplanations :
             analysisView.expandedClause = clauseId
             => analysisView.clauseExplanations[clauseId].sessionId = sessionData.sessionId
       /\ analysisView.documentSummary \in {Null, SummaryFailed, SummaryOf(sessionData.sessionId)}

\* C15: whenever the Analysis or the Chat tab is current, a session is
\* loaded: sessionData and documentAnalysis are both non-null.
C15_ActiveViewHasSession ==
    currentTab \in {1, 2} => sessionData # NoSession /\ Truthy(documentAnalysis)

\* C16: sessionData and documentAnalysis are both null or both non-null, and
\* when non-null documentAnalysis is the analysis held in sessionData.
C16_AnalysisCopiesAgree ==
    /\ sessionData = NoSession <=> ~Truthy(documentAnalysis)
    /\ sessionData # NoSession => documentAnalysis = sessionData.analysis

====
